---- MODULE Spec2Model ----
(***************************************************************************)
(* Prompt-to-JSON Enhancer: the heuristic analyzer                         *)
(* (src/prompt_to_json_enhancer.py) and the /enhance endpoint with its     *)
(* optional Gemini enrichment (src/backend/api/server.py).                 *)
(*                                                                         *)
(* Text is modelled character by character: a Python str is a sequence of  *)
(* one-character strings, so that whitespace collapsing, prefix stripping, *)
(* substring tests and regular-expression searches are computed, not       *)
(* assumed.                                                                *)
(***************************************************************************)
EXTENDS Integers, Sequences, FiniteSets, TLC

(***************************************************************************)
(* Characters                                                              *)
(***************************************************************************)

\* str.lower() / re.IGNORECASE on the ASCII letters
LowerOf ==
  [c \in {"A","B","C","D","E","F","G","H","I","J","K","L","M",
          "N","O","P","Q","R","S","T","U","V","W","X","Y","Z"} |->
     CASE c = "A" -> "a" [] c = "B" -> "b" [] c = "C" -> "c" [] c = "D" -> "d"
       [] c = "E" -> "e" [] c = "F" -> "f" [] c = "G" -> "g" [] c = "H" -> "h"
       [] c = "I" -> "i" [] c = "J" -> "j" [] c = "K" -> "k" [] c = "L" -> "l"
       [] c = "M" -> "m" [] c = "N" -> "n" [] c = "O" -> "o" [] c = "P" -> "p"
       [] c = "Q" -> "q" [] c = "R" -> "r" [] c = "S" -> "s" [] c = "T" -> "t"
       [] c = "U" -> "u" [] c = "V" -> "v" [] c = "W" -> "w" [] c = "X" -> "x"
       [] c = "Y" -> "y" [] c = "Z" -> "z"]

UpperCase == DOMAIN LowerOf

ToLower(c) == IF c \in UpperCase THEN LowerOf[c] ELSE c

\* str.lower(), the characters from the i-th on
RECURSIVE LowerFrom(_, _)
LowerFrom(s, i) ==
  IF i > Len(s) THEN <<>> ELSE <<ToLower(s[i])>> \o LowerFrom(s, i + 1)

\* str.lower()
lower(s) == LowerFrom(s, 1)

\* the characters \s matches and str.strip() removes
IsSpace(c) == c \in {" ", "\t", "\n", "\r", "\f"}

\* s[i:] in Python terms, i counted from 1
DropFirst(s, n) == SubSeq(s, n + 1, Len(s))

RECURSIVE LStrip(_)
LStrip(s) == IF s # <<>> /\ IsSpace(s[1]) THEN LStrip(Tail(s)) ELSE s

RECURSIVE RStrip(_)
RStrip(s) ==
  IF s # <<>> /\ IsSpace(s[Len(s)]) THEN RStrip(SubSeq(s, 1, Len(s) - 1)) ELSE s

\* str.strip()
strip(s) == RStrip(LStrip(s))

\* re.sub(r'\s+', ' ', s): every maximal run of whitespace becomes one space
RECURSIVE CollapseSpaces(_)
CollapseSpaces(s) ==
  IF s = <<>> THEN <<>>
  ELSE IF IsSpace(s[1]) THEN <<" ">> \o CollapseSpaces(LStrip(s))
  ELSE <<s[1]>> \o CollapseSpaces(Tail(s))

\* the lower-case literal pat matches s at position i, ignoring case
MatchCI(s, i, pat) ==
  /\ i + Len(pat) - 1 <= Len(s)
  /\ \A k \in 1..Len(pat) : ToLower(s[i + k - 1]) = pat[k]

\* Python's  kw in s  for strings
Contains(s, kw) ==
  \E i \in 1..(Len(s) - Len(kw) + 1) :
    /\ s[i] = kw[1]
    /\ \A k \in 2..Len(kw) : s[i + k - 1] = kw[k]

(***************************************************************************)
(* Python values, as far as the endpoint handles them                      *)
(***************************************************************************)

\* a str given by a string literal (a label of the rule tables, a string of
\* the service's JSON), and a str given character by character (the prompt
\* and what is cut out of it)
PyStr(v)    == [kind |-> "str", v |-> v]
PyText(cs)  == [kind |-> "text", cs |-> cs]
PyNum(v)    == [kind |-> "num", v |-> v]
PyBool(v)   == [kind |-> "bool", v |-> v]
PyNone      == [kind |-> "none"]
PyList(xs)  == [kind |-> "list", items |-> xs]
PyDict(m)   == [kind |-> "dict", m |-> m]

\* bool(x)
Truthy(x) ==
  CASE x.kind = "str"  -> x.v # ""
    [] x.kind = "text" -> x.cs # <<>>
    [] x.kind = "num"  -> x.v # "0"
    [] x.kind = "bool" -> x.v = "true"
    [] x.kind = "none" -> FALSE
    [] x.kind = "list" -> x.items # <<>>
    [] x.kind = "dict" -> DOMAIN x.m # {}

\* a or b
PyOr(a, b) == IF Truthy(a) THEN a ELSE b

(***************************************************************************)
(* PromptToJSONEnhancer: the rule tables                                   *)
(***************************************************************************)

\* the dict's insertion order, which max() and the for loops follow
ContextOrder == <<"technical", "educational", "creative", "analytical", "business">>

context_keywords ==
  [ technical    |-> << <<"c","o","d","e">>,
                        <<"p","r","o","g","r","a","m","m","i","n","g">>,
                        <<"a","l","g","o","r","i","t","h","m">>,
                        <<"s","o","f","t","w","a","r","e">>,
                        <<"d","e","v","e","l","o","p","m","e","n","t">> >>,
    educational  |-> << <<"e","x","p","l","a","i","n">>,
                        <<"t","e","a","c","h">>,
                        <<"l","e","a","r","n">>,
                        <<"u","n","d","e","r","s","t","a","n","d">>,
                        <<"c","o","n","c","e","p","t">> >>,
    creative     |-> << <<"w","r","i","t","e">>,
                        <<"s","t","o","r","y">>,
                        <<"p","o","e","m">>,
                        <<"c","r","e","a","t","i","v","e">>,
                        <<"i","m","a","g","i","n","e">> >>,
    analytical   |-> << <<"a","n","a","l","y","z","e">>,
                        <<"c","o","m","p","a","r","e">>,
                        <<"e","v","a","l","u","a","t","e">>,
                        <<"a","s","s","e","s","s">>,
                        <<"c","r","i","t","i","q","u","e">> >>,
    business     |-> << <<"s","t","r","a","t","e","g","y">>,
                        <<"b","u","s","i","n","e","s","s">>,
                        <<"m","a","r","k","e","t","i","n","g">>,
                        <<"f","i","n","a","n","c","e">>,
                        <<"m","a","n","a","g","e","m","e","n","t">> >> ]

output_formats ==
  { "detailed explanation", "bullet points", "step-by-step guide",
    "comparative analysis", "summary", "code example", "table format",
    "essay format" }

filler_words ==
  << <<"p","l","e","a","s","e">>,
     <<"c","a","n"," ","y","o","u">>,
     <<"c","o","u","l","d"," ","y","o","u">>,
     <<"i"," ","n","e","e","d">>,
     <<"i"," ","w","a","n","t">> >>

\* each pattern  head (?:a|b|..) (.+?)(?:\?|$)  as the literals its head can
\* spell, in the order of the alternation, the blank before the group included
question_patterns ==
  << << <<"w","h","a","t"," ","i","s"," ">>,
        <<"w","h","a","t"," ","a","r","e"," ">>,
        <<"w","h","a","t"," ","w","a","s"," ">>,
        <<"w","h","a","t"," ","w","e","r","e"," ">> >>,
     << <<"h","o","w"," ","d","o"," ">>,
        <<"h","o","w"," ","d","o","e","s"," ">>,
        <<"h","o","w"," ","c","a","n"," ">>,
        <<"h","o","w"," ","s","h","o","u","l","d"," ">> >>,
     << <<"w","h","y"," ","i","s"," ">>,
        <<"w","h","y"," ","a","r","e"," ">>,
        <<"w","h","y"," ","d","o","e","s"," ">> >>,
     << <<"e","x","p","l","a","i","n"," ">> >>,
     << <<"d","e","s","c","r","i","b","e"," ">> >>,
     << <<"c","o","m","p","a","r","e"," ">> >>,
     << <<"a","n","a","l","y","z","e"," ">> >> >>

context_approaches ==
  [ technical   |-> "Provide technical explanation with examples and best practices",
    educational |-> "Give clear, step-by-step explanation suitable for learning",
    creative    |-> "Offer creative suggestions and examples",
    analytical  |-> "Present detailed analysis with pros/cons and conclusions",
    business    |-> "Focus on practical applications and business value",
    general     |-> "Provide comprehensive information covering key aspects" ]

\* the dict in its insertion order: keyword, format label
format_keywords ==
  << [kw |-> <<"b","u","l","l","e","t">>,     label |-> "bullet points"],
     [kw |-> <<"l","i","s","t">>,             label |-> "bullet points"],
     [kw |-> <<"s","t","e","p">>,             label |-> "step-by-step guide"],
     [kw |-> <<"t","a","b","l","e">>,         label |-> "table format"],
     [kw |-> <<"c","o","m","p","a","r","e">>, label |-> "comparative analysis"],
     [kw |-> <<"s","u","m","m","a","r","y">>, label |-> "summary"],
     [kw |-> <<"c","o","d","e">>,             label |-> "code example"],
     [kw |-> <<"e","s","s","a","y">>,         label |-> "essay format"] >>

context_formats ==
  [ technical   |-> "detailed explanation",
    educational |-> "step-by-step guide",
    creative    |-> "essay format",
    analytical  |-> "comparative analysis",
    business    |-> "summary",
    general     |-> "detailed explanation" ]

(***************************************************************************)
(* PromptToJSONEnhancer: the analysis steps                                *)
(***************************************************************************)

\* the substitution with \s* for \s+
RemoveFiller_OptionalSpace(cleaned, word) ==
  IF MatchCI(cleaned, 1, word)
  THEN LStrip(DropFirst(cleaned, Len(word)))
  ELSE cleaned

\* re.sub('^word\s+', '', cleaned, flags=re.IGNORECASE): the word at the very
\* start, followed by whitespace, is removed together with that whitespace
RemoveFiller(cleaned, word) ==
  IF /\ MatchCI(cleaned, 1, word)
     /\ Len(cleaned) > Len(word)
     /\ IsSpace(cleaned[Len(word) + 1])
  THEN LStrip(DropFirst(cleaned, Len(word)))
  ELSE cleaned

\* the loop left at the first word removed
RECURSIVE RemoveFillersFrom_Break(_, _)
RemoveFillersFrom_Break(cleaned, k) ==
  IF k > Len(filler_words) THEN cleaned
  ELSE IF RemoveFiller(cleaned, filler_words[k]) # cleaned
       THEN RemoveFiller(cleaned, filler_words[k])
       ELSE RemoveFillersFrom_Break(cleaned, k + 1)

\* the loop  for word in filler_words  from its k-th word on
RECURSIVE RemoveFillersFrom(_, _)
RemoveFillersFrom(cleaned, k) ==
  IF k > Len(filler_words) THEN cleaned
  ELSE RemoveFillersFrom(RemoveFiller(cleaned, filler_words[k]), k + 1)

clean_prompt(prompt) == RemoveFillersFrom(CollapseSpaces(strip(prompt)), 1)

\* sum(1 for keyword in keywords if keyword in prompt_lower)
ContextScore(prompt_lower, context) ==
  Cardinality({k \in 1..Len(context_keywords[context]) :
                 Contains(prompt_lower, context_keywords[context][k])})

\* context_scores, in the dict's insertion order, from the i-th context on
RECURSIVE ContextScoresFrom(_, _)
ContextScoresFrom(prompt_lower, i) ==
  IF i > Len(ContextOrder) THEN <<>>
  ELSE <<ContextScore(prompt_lower, ContextOrder[i])>>
       \o ContextScoresFrom(prompt_lower, i + 1)

\* max() keeping the last of the keys that share the highest score
BestContext_Last(context_scores) ==
  CHOOSE i \in 1..Len(context_scores) :
    /\ \A j \in 1..Len(context_scores) : context_scores[j] <= context_scores[i]
    /\ \A j \in (i + 1)..Len(context_scores) : context_scores[j] < context_scores[i]

\* max(context_scores, key=context_scores.get): the first key, in insertion
\* order, whose score no other key exceeds
BestContext(context_scores) ==
  CHOOSE i \in 1..Len(context_scores) :
    /\ \A j \in 1..Len(context_scores) : context_scores[j] <= context_scores[i]
    /\ \A j \in 1..(i - 1) : context_scores[j] < context_scores[i]

\* the choice with "unknown" for a text without keywords
PickContext_Unknown(context_scores) ==
  IF context_scores[BestContext(context_scores)] > 0
  THEN ContextOrder[BestContext(context_scores)]
  ELSE "unknown"

\* the choice with a single keyword not counting
PickContext_Threshold(context_scores) ==
  IF context_scores[BestContext(context_scores)] > 1
  THEN ContextOrder[BestContext(context_scores)]
  ELSE "general"

\* the choice among the scored contexts
PickContext(context_scores) ==
  IF context_scores[BestContext(context_scores)] > 0
  THEN ContextOrder[BestContext(context_scores)]
  ELSE "general"

detect_context(prompt) == PickContext(ContextScoresFrom(lower(prompt), 1))

\* the lazy group (.+?) followed by (?:\?|$), the group starting at c and
\* reaching at least to e: the last position of the shortest group, 0 if the
\* group cannot be completed ('.' matches no newline)
RECURSIVE GroupEnd(_, _)
GroupEnd(s, e) ==
  IF e > Len(s) \/ s[e] = "\n" THEN 0
  ELSE IF \/ e = Len(s)
          \/ s[e + 1] = "?"
          \/ (e + 1 = Len(s) /\ s[e + 1] = "\n")
       THEN e
       ELSE GroupEnd(s, e + 1)

\* the match of one pattern at position i: the group's text, or "none"
PatternMatchAt(s, i, heads) ==
  LET ok(h) == MatchCI(s, i, heads[h]) /\ GroupEnd(s, i + Len(heads[h])) > 0
  IN IF \E h \in 1..Len(heads) : ok(h)
     THEN LET h == CHOOSE h \in 1..Len(heads) :
                     ok(h) /\ \A g \in 1..(h - 1) : ~ok(g)
              c == i + Len(heads[h])
          IN [found |-> TRUE, group |-> SubSeq(s, c, GroupEnd(s, c))]
     ELSE [found |-> FALSE, group |-> <<>>]

\* re.search(pattern, prompt, re.IGNORECASE): the leftmost match, looked for
\* from position i on
RECURSIVE PatternSearchFrom(_, _, _)
PatternSearchFrom(s, i, heads) ==
  IF i > Len(s) THEN [found |-> FALSE, group |-> <<>>]
  ELSE IF ToLower(s[i]) = heads[1][1] /\ PatternMatchAt(s, i, heads).found
       THEN PatternMatchAt(s, i, heads)
       ELSE PatternSearchFrom(s, i + 1, heads)

PatternSearch(s, heads) == PatternSearchFrom(s, 1, heads)

\* the loop going through the patterns from the last to the first
RECURSIVE ExtractFrom_LastFirst(_, _)
ExtractFrom_LastFirst(prompt, k) ==
  IF k > Len(question_patterns) THEN prompt
  ELSE LET match == PatternSearch(prompt,
                      question_patterns[Len(question_patterns) + 1 - k])
       IN IF match.found THEN strip(match.group)
          ELSE ExtractFrom_LastFirst(prompt, k + 1)

\* the loop  for pattern in question_patterns  from its k-th pattern on
RECURSIVE ExtractFrom(_, _)
ExtractFrom(prompt, k) ==
  IF k > Len(question_patterns) THEN prompt
  ELSE LET match == PatternSearch(prompt, question_patterns[k])
       IN IF match.found THEN strip(match.group)
          ELSE ExtractFrom(prompt, k + 1)

extract_problem(prompt) == ExtractFrom(prompt, 1)

\* context_approaches.get(context, context_approaches["general"])
determine_solution_approach(prompt, context) ==
  IF context \in DOMAIN context_approaches
  THEN context_approaches[context]
  ELSE context_approaches["general"]

\* the loop going through the keywords from the last to the first
RECURSIVE FormatFrom_LastFirst(_, _, _)
FormatFrom_LastFirst(prompt_lower, context, k) ==
  IF k > Len(format_keywords)
  THEN IF context \in DOMAIN context_formats
       THEN context_formats[context]
       ELSE "detailed explanation"
  ELSE IF Contains(prompt_lower, format_keywords[Len(format_keywords) + 1 - k].kw)
       THEN format_keywords[Len(format_keywords) + 1 - k].label
       ELSE FormatFrom_LastFirst(prompt_lower, context, k + 1)

\* the loop  for keyword, format_type in format_keywords.items()  from k on
RECURSIVE FormatFrom(_, _, _)
FormatFrom(prompt_lower, context, k) ==
  IF k > Len(format_keywords)
  THEN IF context \in DOMAIN context_formats
       THEN context_formats[context]
       ELSE "detailed explanation"
  ELSE IF Contains(prompt_lower, format_keywords[k].kw)
       THEN format_keywords[k].label
       ELSE FormatFrom(prompt_lower, context, k + 1)

suggest_output_format(prompt, context) == FormatFrom(lower(prompt), context, 1)

\* the dict analyze_prompt returns, from its locals
AnalysisResult(cleaned_prompt, context) ==
  [ context           |-> PyStr(context),
    problem           |-> PyText(extract_problem(cleaned_prompt)),
    expected_solution |-> PyStr(determine_solution_approach(cleaned_prompt, context)),
    output_format     |-> PyStr(suggest_output_format(cleaned_prompt, context)) ]

AnalyzeCleaned(cleaned_prompt) ==
  AnalysisResult(cleaned_prompt, detect_context(cleaned_prompt))

analyze_prompt(prompt) == AnalyzeCleaned(clean_prompt(prompt))

\* enhance_prompt handing back the cleaned prompt as original_prompt
enhance_prompt_Cleaned(prompt) ==
  [ original_prompt |-> PyText(clean_prompt(prompt)),
    enhanced_prompt |-> analyze_prompt(prompt),
    metadata        |-> [ timestamp           |-> "now",
                          enhancement_version |-> "1.0.0",
                          processing_time     |-> "N/A" ] ]

enhance_prompt(prompt) ==
  [ original_prompt |-> PyText(prompt),
    enhanced_prompt |-> analyze_prompt(prompt),
    metadata        |-> [ timestamp           |-> "now",
                             enhancement_version |-> "1.0.0",
                             processing_time     |-> "N/A" ] ]

(***************************************************************************)
(* The service's response text and json.loads                              *)
(*                                                                         *)
(* The response text is a sequence of lexical tokens [t, v]: the six       *)
(* punctuation marks of JSON, string literals ("str", v its content, free  *)
(* of braces), numbers, null, true, false, whitespace ("ws") and words of  *)
(* prose ("prose"), which are no JSON.                                     *)
(***************************************************************************)

Tok(t, v) == [t |-> t, v |-> v]
Punct(t)  == Tok(t, "")
WsTok     == Tok("ws", " ")

RequiredKeys == <<"context", "problem", "expected_solution", "output_format">>

\* the one string literal of the alphabet that has every key's name in it
AllKeysText == "context problem expected_solution output_format"

\* Python's  k in s  for the string literals of the alphabet: a key's name
\* occurs in the literal that spells it and in AllKeysText, in no other
StrContains(s, k) == s = k \/ s = AllKeysText

TokAt(toks, i) == IF i >= 1 /\ i <= Len(toks) THEN toks[i].t ELSE "eof"

RECURSIVE SkipWs(_, _)
SkipWs(toks, i) == IF TokAt(toks, i) = "ws" THEN SkipWs(toks, i + 1) ELSE i

\* text.strip()
RECURSIVE StripToks(_)
StripToks(toks) ==
  IF toks = <<>> THEN toks
  ELSE IF toks[1].t = "ws" THEN StripToks(Tail(toks))
  ELSE IF toks[Len(toks)].t = "ws" THEN StripToks(SubSeq(toks, 1, Len(toks) - 1))
  ELSE toks

\* text.find("{") and text.rfind("}"), counted from 1; 0 stands for -1
FindFirst(toks, t) ==
  IF \E i \in 1..Len(toks) : toks[i].t = t
  THEN CHOOSE i \in 1..Len(toks) :
         toks[i].t = t /\ \A j \in 1..(i - 1) : toks[j].t # t
  ELSE 0

FindLast(toks, t) ==
  IF \E i \in 1..Len(toks) : toks[i].t = t
  THEN CHOOSE i \in 1..Len(toks) :
         toks[i].t = t /\ \A j \in (i + 1)..Len(toks) : toks[j].t # t
  ELSE 0

ParseFail == [ok |-> FALSE, val |-> PyNone, next |-> 0]
ParseOk(val, next) == [ok |-> TRUE, val |-> val, next |-> next]

\* json's scanner: one value starting at or after position i
RECURSIVE ParseValue(_, _)
RECURSIVE ParseElements(_, _, _)
RECURSIVE ParseMembers(_, _, _)

ParseValue(toks, i) ==
  LET j == SkipWs(toks, i)
      t == TokAt(toks, j)
  IN CASE t = "str"   -> ParseOk(PyStr(toks[j].v), j + 1)
       [] t = "num"   -> ParseOk(PyNum(toks[j].v), j + 1)
       [] t = "null"  -> ParseOk(PyNone, j + 1)
       [] t = "true"  -> ParseOk(PyBool("true"), j + 1)
       [] t = "false" -> ParseOk(PyBool("false"), j + 1)
       [] t = "["     ->
            IF TokAt(toks, SkipWs(toks, j + 1)) = "]"
            THEN ParseOk(PyList(<<>>), SkipWs(toks, j + 1) + 1)
            ELSE ParseElements(toks, j + 1, <<>>)
       [] t = "{"     ->
            IF TokAt(toks, SkipWs(toks, j + 1)) = "}"
            THEN ParseOk(PyDict(<<>>), SkipWs(toks, j + 1) + 1)
            ELSE ParseMembers(toks, j + 1, <<>>)
       [] OTHER       -> ParseFail

\* the elements of an array after "[" or ",", acc those read so far
ParseElements(toks, i, acc) ==
  LET r == ParseValue(toks, i)
      k == SkipWs(toks, r.next)
  IN IF ~r.ok THEN ParseFail
     ELSE IF TokAt(toks, k) = "," THEN ParseElements(toks, k + 1, Append(acc, r.val))
     ELSE IF TokAt(toks, k) = "]" THEN ParseOk(PyList(Append(acc, r.val)), k + 1)
     ELSE ParseFail

\* the members of an object after "{" or ",", m those read so far; a later
\* member replaces an earlier one of the same name
ParseMembers(toks, i, m) ==
  LET j == SkipWs(toks, i)
      c == SkipWs(toks, j + 1)
      r == ParseValue(toks, c + 1)
      k == SkipWs(toks, r.next)
      key == toks[j].v
      m2 == [x \in DOMAIN m \cup {key} |-> IF x = key THEN r.val ELSE m[x]]
  IN IF TokAt(toks, j) # "str" \/ TokAt(toks, c) # ":" THEN ParseFail
     ELSE IF ~r.ok THEN ParseFail
     ELSE IF TokAt(toks, k) = "," THEN ParseMembers(toks, k + 1, m2)
     ELSE IF TokAt(toks, k) = "}" THEN ParseOk(PyDict(m2), k + 1)
     ELSE ParseFail

\* json.loads(text): one value and nothing but whitespace after it
json_loads(toks) ==
  LET r == ParseValue(toks, 1)
  IN IF r.ok /\ SkipWs(toks, r.next) > Len(toks) THEN r ELSE ParseFail

\* k in data: "yes", "no", or "TypeError" for a value that is no container
KeyIn(k, data) ==
  CASE data.kind = "dict" -> IF k \in DOMAIN data.m THEN "yes" ELSE "no"
    [] data.kind = "list" ->
         IF \E i \in 1..Len(data.items) : data.items[i] = PyStr(k) THEN "yes" ELSE "no"
    [] data.kind = "str"  -> IF StrContains(data.v, k) THEN "yes" ELSE "no"
    [] OTHER              -> "TypeError"

\* all(...) over the first three keys only
AllKeysIn_ThreeKeys(data) ==
  IF KeyIn(RequiredKeys[1], data) = "TypeError" THEN "TypeError"
  ELSE IF \A i \in 1..(Len(RequiredKeys) - 1) : KeyIn(RequiredKeys[i], data) = "yes"
       THEN "yes" ELSE "no"

\* all(k in data for k in [...]): "yes", "no" or "TypeError"
AllKeysIn(data) ==
  IF KeyIn(RequiredKeys[1], data) = "TypeError" THEN "TypeError"
  ELSE IF \A i \in 1..Len(RequiredKeys) : KeyIn(RequiredKeys[i], data) = "yes"
       THEN "yes" ELSE "no"

NoResult == [some |-> FALSE, original_prompt |-> PyNone,
             enhanced_prompt |-> PyNone, metadata |-> [source |-> "none"]]

\* call_gemini with the object cut at the first "}" instead of the last
GeminiParse_FirstClose(prompt, text) ==
  LET start == FindFirst(text, "{")
      end   == FindFirst(text, "}")
      data  == json_loads(IF start # 0 /\ end # 0
                          THEN SubSeq(text, start, end) ELSE text)
  IN IF ~data.ok THEN NoResult
     ELSE IF AllKeysIn(data.val) # "yes" THEN NoResult
     ELSE [some |-> TRUE, original_prompt |-> PyText(prompt),
           enhanced_prompt |-> data.val, metadata |-> [source |-> "gemini"]]

\* call_gemini from  start = text.find("{")  on, text being result.text.strip()
\* or "": json.loads raising, and  k in data  raising, end in  return None
GeminiParse(prompt, text) ==
  LET start == FindFirst(text, "{")
      end   == FindLast(text, "}")
      data  == json_loads(IF start # 0 /\ end # 0
                          THEN SubSeq(text, start, end) ELSE text)
  IN IF ~data.ok THEN NoResult
     ELSE IF AllKeysIn(data.val) # "yes" THEN NoResult
     ELSE [some |-> TRUE, original_prompt |-> PyText(prompt),
           enhanced_prompt |-> data.val, metadata |-> [source |-> "gemini"]]

\* d.get(k) on the value d: the "AttributeError" of a value that has no get
PyGet(d, k) ==
  IF d.kind # "dict" THEN [raised |-> TRUE, val |-> PyNone]
  ELSE [raised |-> FALSE, val |-> IF k \in DOMAIN d.m THEN d.m[k] ELSE PyNone]

(***************************************************************************)
(* Inputs                                                                  *)
(***************************************************************************)

\* the longest prompt handed to the analyzer, and to the endpoint, in pieces
MaxChunks == 3
MaxReqChunks == 2
\* the most tokens of prose or stray braces around the service's JSON
MaxWrap == 1

\* the pieces prompts are put together from
Chunks ==
  << <<"p","l","e","a","s","e"," ">>,
     <<" ","\t">>,
     <<"W","h","a","t"," ","i","s"," ">>,
     <<"c","o","d","e">>,
     <<"C","a","n"," ","y","o","u"," ">>,
     <<"m","a","c","h","i","n","e"," ","l","e","a","r","n","i","n","g">>,
     <<"?">>,
     <<"e","x","p","l","a","i","n"," ">>,
     <<"c","o","m","p","a","r","e"," ">>,
     <<"i"," ","n","e","e","d">> >>

\* the pieces of the prompts posted to /enhance
ReqChunks == {1, 2, 4}

RECURSIVE Concat(_)
Concat(ids) == IF ids = <<>> THEN <<>> ELSE Chunks[Head(ids)] \o Concat(Tail(ids))

SeqsUpTo(S, n) == UNION {[1..k -> S] : k \in 0..n}

Prompts    == {Concat(ids) : ids \in SeqsUpTo(1..Len(Chunks), MaxChunks)}
ReqPrompts == {Concat(ids) : ids \in SeqsUpTo(ReqChunks, MaxReqChunks)}

\* what a member of the service's object can be: the empty string, a word of
\* the service's own, four other falsy values, and a label, a number, null
\* and true
EmptyStr  == <<Tok("str", "")>>
CustomStr == <<WsTok, Tok("str", "custom")>>

OtherFalsy == << <<Tok("num", "0")>>, <<Punct("["), Punct("]")>>,
                 <<Punct("{"), Punct("}")>>, <<Punct("false")>> >>

OtherValues == << <<Tok("str", "technical")>>, <<Tok("num", "7")>>,
                  <<Punct("null")>>, <<Punct("true")>> >>

\* the members  "k": value  of the keys ks, separated by commas
RECURSIVE MembersText(_, _)
MembersText(ks, val) ==
  IF ks = <<>> THEN <<>>
  ELSE <<Tok("str", Head(ks)), Punct(":")>> \o val[Head(ks)]
       \o (IF Len(ks) > 1 THEN <<Punct(",")>> ELSE <<>>)
       \o MembersText(Tail(ks), val)

ObjectText(ks, val) == <<Punct("{")>> \o MembersText(ks, val) \o <<Punct("}")>>

KeySet == {RequiredKeys[i] : i \in 1..Len(RequiredKeys)}

\* the position of the key k among the required ones
KeyIndex(k) == CHOOSE i \in 1..Len(RequiredKeys) : RequiredKeys[i] = k

\* objects with all four keys, each value truthy or falsy on its own
FullObjects ==
  { ObjectText(RequiredKeys,
               [k \in KeySet |-> IF k \in F THEN EmptyStr ELSE CustomStr]) :
      F \in SUBSET KeySet }

\* all four keys with values of other kinds
OddObjects ==
  { ObjectText(RequiredKeys, [k \in KeySet |-> OtherFalsy[KeyIndex(k)]]),
    \* a label of the analyzer's, a number, null and true
    ObjectText(RequiredKeys, [k \in KeySet |-> OtherValues[KeyIndex(k)]]),
    \* a name twice: the later member counts
    ObjectText(<<"context">> \o RequiredKeys,
               [k \in KeySet |-> IF k = "context" THEN EmptyStr ELSE CustomStr]),
    \* a fifth key besides the four
    ObjectText(RequiredKeys \o <<"notes">>,
               [k \in KeySet \cup {"notes"} |-> CustomStr]) }

\* objects that lack a key, and texts that are no object
PartialObjects ==
  { ObjectText(SelectSeq(RequiredKeys, LAMBDA k : k # missing),
               [k \in KeySet |-> CustomStr]) : missing \in KeySet }
  \cup { <<Punct("{"), Punct("}")>>,
         \* a comma too many
         <<Punct("{")>> \o MembersText(RequiredKeys, [k \in KeySet |-> <<Punct("null")>>])
           \o <<Punct(","), Punct("}")>> }

\* the array of the names ks
KeyNamesList(ks) ==
  <<Punct("[")>>
  \o [i \in 1..(2 * Len(ks) - 1) |->
        IF i % 2 = 1 THEN Tok("str", ks[(i + 1) \div 2]) ELSE Punct(",")]
  \o <<Punct("]")>>

NonObjects ==
  { KeyNamesList(RequiredKeys),
    KeyNamesList(SubSeq(RequiredKeys, 1, 3)),
    <<Punct("["), Punct("]")>>,
    <<Tok("str", AllKeysText)>>,
    <<Tok("str", "context")>>,
    <<Tok("num", "7")>>,
    <<Punct("null")>>,
    <<Punct("true")>>,
    <<Tok("prose", "Sorry")>>,
    <<>> }

Bodies == FullObjects \cup OddObjects \cup PartialObjects \cup NonObjects

WrapToks == {Tok("prose", "Sure"), Punct("{"), Punct("}")}

\* what stands before and after the body: at most MaxWrap tokens of prose or
\* braces in all
Wraps ==
  { w \in SeqsUpTo(WrapToks, MaxWrap) \X SeqsUpTo(WrapToks, MaxWrap) :
      Len(w[1]) + Len(w[2]) <= MaxWrap }

\* the response texts: a body, blanks around it, and a wrap
ServiceTexts ==
  { <<WsTok>> \o w[1] \o <<WsTok>> \o body \o <<WsTok>> \o w[2] :
      w \in Wraps, body \in Bodies }

(***************************************************************************)
(* State                                                                   *)
(***************************************************************************)

VARIABLES
  pc,            \* where the request, or the analysis, stands
  prompt,        \* body.prompt, or the argument of analyze_prompt
  configured,    \* GEMINI_API_KEY is set and google.generativeai was imported
  outcome,       \* what generate_content did: [kind, text], kind "raise" (it,
                 \* or reading result.text, raised), "notext" (the result has
                 \* no text attribute) or "text" (text is result.text)
  calls,         \* how often generate_content was called
  llm_result,    \* what call_gemini returned
  response,      \* what the endpoint answers
  cleaned_prompt, context, problem, expected_solution, output_format,
                 \* the locals of analyze_prompt
  analysis       \* what analyze_prompt returned

locals == <<cleaned_prompt, context, problem, expected_solution, output_format, analysis>>
request == <<configured, outcome, calls, llm_result, response>>
vars == <<pc, prompt, configured, outcome, calls, llm_result, response,
          cleaned_prompt, context, problem, expected_solution, output_format, analysis>>

NoOutcome  == [kind |-> "pending", text |-> <<>>]
NoResponse == [status |-> "pending", body |-> PyNone]
NoAnalysis == [context |-> PyNone, problem |-> PyNone,
               expected_solution |-> PyNone, output_format |-> PyNone]

BlankLocals ==
  /\ cleaned_prompt = <<>>
  /\ context = ""
  /\ problem = <<>>
  /\ expected_solution = ""
  /\ output_format = ""
  /\ analysis = NoAnalysis

BlankRequest ==
  /\ outcome = NoOutcome
  /\ calls = 0
  /\ llm_result = NoResult
  /\ response = NoResponse

(***************************************************************************)
(* POST /enhance                                                           *)
(***************************************************************************)

Init ==
  /\ pc = "request"
  /\ prompt \in ReqPrompts
  /\ configured \in BOOLEAN
  /\ BlankRequest
  /\ BlankLocals

\* if not body.prompt or not body.prompt.strip(): HTTPException(400)
Reject ==
  /\ pc = "request"
  /\ (prompt = <<>> \/ strip(prompt) = <<>>)
  /\ pc' = "rejected"
  /\ response' = [status |-> "400", body |-> PyNone]
  /\ UNCHANGED <<prompt, configured, outcome, calls, llm_result, locals>>

Accept ==
  /\ pc = "request"
  /\ ~(prompt = <<>> \/ strip(prompt) = <<>>)
  /\ pc' = "gemini"
  /\ UNCHANGED <<prompt, request, locals>>

\* call_gemini without a key or without the client library: return None
GeminiUnavailable ==
  /\ pc = "gemini"
  /\ ~configured
  /\ llm_result' = NoResult
  /\ pc' = "called"
  /\ UNCHANGED <<prompt, configured, outcome, calls, response, locals>>

\* call_gemini calling the service once more after it raised
GeminiRaises_Retry ==
  /\ pc = "gemini"
  /\ configured
  /\ calls < 2
  /\ calls' = calls + 1
  /\ outcome' = [kind |-> "raise", text |-> <<>>]
  /\ llm_result' = NoResult
  /\ pc' = IF calls = 0 THEN "gemini" ELSE "called"
  /\ UNCHANGED <<prompt, configured, response, locals>>

\* call_gemini: generate_content, or reading result.text, raises: return None
GeminiRaises ==
  /\ pc = "gemini"
  /\ configured
  /\ calls' = calls + 1
  /\ outcome' = [kind |-> "raise", text |-> <<>>]
  /\ llm_result' = NoResult
  /\ pc' = "called"
  /\ UNCHANGED <<prompt, configured, response, locals>>

\* call_gemini: generate_content answers; the local text is result.text.strip(),
\* or "" for a result without a text attribute
GeminiAnswers ==
  /\ pc = "gemini"
  /\ configured
  /\ calls' = calls + 1
  /\ \E o \in {[kind |-> "notext", text |-> <<>>]}
              \cup {[kind |-> "text", text |-> t] : t \in ServiceTexts} :
       /\ outcome' = o
       /\ llm_result' = GeminiParse(prompt, StripToks(o.text))
  /\ pc' = "called"
  /\ UNCHANGED <<prompt, configured, response, locals>>

\* d with d[k] = v
DictSet(d, k, v) == [x \in DOMAIN d \cup {k} |-> IF x = k THEN v ELSE d[x]]

\* llm_result is None: the local heuristic alone
Fallback ==
  /\ pc = "called"
  /\ ~llm_result.some
  /\ LET enhanced == enhance_prompt(prompt)
     IN response' =
          [status |-> "200",
           body   |-> [enhanced EXCEPT !.metadata = DictSet(@, "source", "local")]]
  /\ analysis' = response'.body.enhanced_prompt
  /\ pc' = "returned"
  /\ UNCHANGED <<prompt, configured, outcome, calls, llm_result, cleaned_prompt,
                 context, problem, expected_solution, output_format>>

\* the merge with the operands of  or  exchanged
Merged_LocalFirst(prompt_, llm, local_hint) ==
  [ original_prompt |-> PyText(prompt_),
    enhanced_prompt |->
      [ context           |-> PyOr(local_hint.context, PyGet(llm, "context").val),
        problem           |-> PyOr(local_hint.problem, PyGet(llm, "problem").val),
        expected_solution |-> PyOr(local_hint.expected_solution,
                                   PyGet(llm, "expected_solution").val),
        output_format     |-> PyOr(local_hint.output_format,
                                   PyGet(llm, "output_format").val) ],
    metadata |-> [source |-> "gemini+local"] ]

\* the dict merged, from Gemini's dict and the local hints
Merged(prompt_, llm, local_hint) ==
  [ original_prompt |-> PyText(prompt_),
    enhanced_prompt |->
      [ context           |-> PyOr(PyGet(llm, "context").val, local_hint.context),
        problem           |-> PyOr(PyGet(llm, "problem").val, local_hint.problem),
        expected_solution |-> PyOr(PyGet(llm, "expected_solution").val,
                                   local_hint.expected_solution),
        output_format     |-> PyOr(PyGet(llm, "output_format").val,
                                   local_hint.output_format) ],
    metadata |-> [source |-> "gemini+local"] ]

\* the merge of Gemini's fields with the local hints; .get on a value that is
\* no dict raises AttributeError, which the endpoint does not catch
Merge ==
  /\ pc = "called"
  /\ llm_result.some
  /\ analysis' = analyze_prompt(prompt)
  /\ IF PyGet(llm_result.enhanced_prompt, "context").raised
     THEN /\ response' = [status |-> "500", body |-> PyNone]
          /\ pc' = "crashed"
     ELSE /\ response' =
               [status |-> "200",
                body   |-> Merged(prompt, llm_result.enhanced_prompt, analysis')]
          /\ pc' = "returned"
  /\ UNCHANGED <<prompt, configured, outcome, calls, llm_result, cleaned_prompt,
                 context, problem, expected_solution, output_format>>

Next ==
  \/ Reject \/ Accept
  \/ GeminiUnavailable \/ GeminiRaises \/ GeminiAnswers
  \/ Fallback \/ Merge

Spec == Init /\ [][Next]_vars

(***************************************************************************)
(* analyze_prompt, step by step                                            *)
(***************************************************************************)

InitAnalyze ==
  /\ pc = "clean"
  /\ prompt \in Prompts
  /\ configured = FALSE
  /\ BlankRequest
  /\ BlankLocals

Clean ==
  /\ pc = "clean"
  /\ cleaned_prompt' = clean_prompt(prompt)
  /\ pc' = "detect"
  /\ UNCHANGED <<prompt, request, context, problem, expected_solution,
                 output_format, analysis>>

Detect ==
  /\ pc = "detect"
  /\ context' = detect_context(cleaned_prompt)
  /\ pc' = "extract"
  /\ UNCHANGED <<prompt, request, cleaned_prompt, problem, expected_solution,
                 output_format, analysis>>

Extract ==
  /\ pc = "extract"
  /\ problem' = extract_problem(cleaned_prompt)
  /\ pc' = "approach"
  /\ UNCHANGED <<prompt, request, cleaned_prompt, context, expected_solution,
                 output_format, analysis>>

Approach ==
  /\ pc = "approach"
  /\ expected_solution' = determine_solution_approach(cleaned_prompt, context)
  /\ pc' = "format"
  /\ UNCHANGED <<prompt, request, cleaned_prompt, context, problem,
                 output_format, analysis>>

Format ==
  /\ pc = "format"
  /\ output_format' = suggest_output_format(cleaned_prompt, context)
  /\ pc' = "result"
  /\ UNCHANGED <<prompt, request, cleaned_prompt, context, problem,
                 expected_solution, analysis>>

Return ==
  /\ pc = "result"
  /\ analysis' = [ context           |-> PyStr(context),
                   problem           |-> PyText(problem),
                   expected_solution |-> PyStr(expected_solution),
                   output_format     |-> PyStr(output_format) ]
  /\ pc' = "analyzed"
  /\ UNCHANGED <<prompt, request, cleaned_prompt, context, problem,
                 expected_solution, output_format>>

NextAnalyze == Clean \/ Detect \/ Extract \/ Approach \/ Format \/ Return

SpecAnalyze == InitAnalyze /\ [][NextAnalyze]_vars
(***************************************************************************)
(* detect_context, extract_problem and suggest_output_format, each called  *)
(* on its own                                                              *)
(***************************************************************************)

\* the most words of a text handed to one of the three methods
MaxWords == 2

\* the words the texts are put together from: keywords of the five contexts,
\* format keywords, heads of the question patterns and a question mark
Words ==
  << <<"c","o","d","e">>,
     <<"s","o","f","t","w","a","r","e">>,
     <<"e","x","p","l","a","i","n">>,
     <<"l","e","a","r","n">>,
     <<"s","t","o","r","y">>,
     <<"C","o","m","p","a","r","e">>,
     <<"a","n","a","l","y","z","e">>,
     <<"b","u","s","i","n","e","s","s">>,
     <<"l","i","s","t">>,
     <<"s","t","e","p">>,
     <<"t","a","b","l","e">>,
     <<"s","u","m","m","a","r","y">>,
     <<"W","h","a","t"," ","i","s"," ","i","t">>,
     <<"h","o","w"," ","d","o">>,
     <<"d","e","s","c","r","i","b","e">>,
     <<"?">>,
     <<"m","a","r","k","e","t","i","n","g"," ","s","t","r","a","t","e","g","y">> >>

\* the words ids with a blank between them: a normalized text
RECURSIVE Join(_)
Join(ids) ==
  IF ids = <<>> THEN <<>>
  ELSE IF Len(ids) = 1 THEN Words[Head(ids)]
  ELSE Words[Head(ids)] \o <<" ">> \o Join(Tail(ids))

Texts == {Join(ids) : ids \in SeqsUpTo(1..Len(Words), MaxWords)}

\* the context argument of suggest_output_format: what detect_context can
\* return, and a string it cannot
ContextArgs == {ContextOrder[i] : i \in 1..Len(ContextOrder)} \cup {"general", "unknown"}

InitSteps ==
  /\ pc = "call"
  /\ prompt \in Texts
  /\ configured = FALSE
  /\ BlankRequest
  /\ BlankLocals

CallDetect ==
  /\ pc = "call"
  /\ context' = detect_context(prompt)
  /\ pc' = "detected"
  /\ UNCHANGED <<prompt, request, cleaned_prompt, problem, expected_solution,
                 output_format, analysis>>

CallExtract ==
  /\ pc = "call"
  /\ problem' = extract_problem(prompt)
  /\ pc' = "extracted"
  /\ UNCHANGED <<prompt, request, cleaned_prompt, context, expected_solution,
                 output_format, analysis>>

CallFormat ==
  /\ pc = "call"
  /\ \E c \in ContextArgs :
       /\ context' = c
       /\ output_format' = suggest_output_format(prompt, c)
  /\ pc' = "formatted"
  /\ UNCHANGED <<prompt, request, cleaned_prompt, problem, expected_solution,
                 analysis>>

NextSteps == CallDetect \/ CallExtract \/ CallFormat

SpecSteps == InitSteps /\ [][NextSteps]_vars

(***************************************************************************)
(* Properties of POST /enhance (specification Spec)                        *)
(***************************************************************************)

Ended    == pc \in {"returned", "crashed"}
Returned == pc = "returned"
Source   == response.body.metadata.source

\* the service's answer was a text
Answered == outcome.kind = "text"

\* what the endpoint returns when no service is configured
LocalOnly(p) == [original_prompt |-> PyText(p), enhanced_prompt |-> analyze_prompt(p)]

\* the part of the stripped text t from its first "{" to its last "}", or all
\* of it when one of the two is missing
BracePart(t) ==
  IF FindFirst(StripToks(t), "{") # 0 /\ FindLast(StripToks(t), "}") # 0
  THEN SubSeq(StripToks(t), FindFirst(StripToks(t), "{"), FindLast(StripToks(t), "}"))
  ELSE StripToks(t)

\* no JSON is to be had from t: neither t nor its brace part is JSON
NotJson(t) == ~json_loads(StripToks(t)).ok /\ ~json_loads(BracePart(t)).ok

\* t carries a JSON object that has all four keys
CarriesFullObject(t) ==
  /\ json_loads(BracePart(t)).ok
  /\ json_loads(BracePart(t)).val.kind = "dict"
  /\ KeySet \subseteq DOMAIN json_loads(BracePart(t)).val.m

\* a complete EnhancementResult
CompleteResult(b) ==
  /\ b.original_prompt.kind = "text"
  /\ DOMAIN b.enhanced_prompt = KeySet
  /\ "source" \in DOMAIN b.metadata

\* C1: every accepted request ends with a complete EnhancementResult, whatever
\* the service did; none ends in an error.
C1_EveryOutcomeYieldsResult ==
  Ended => response.status = "200" /\ CompleteResult(response.body)

\* C2: when the service raised, or answered with a text that no JSON is to be
\* had from, the request returns, and original_prompt and the four fields are
\* those of the local heuristic alone.
C2_FailureFallsBackToLocal ==
  (Ended /\ (outcome.kind \in {"raise", "notext"} \/ (Answered /\ NotJson(outcome.text))))
    => /\ Returned
       /\ response.body.original_prompt = LocalOnly(prompt).original_prompt
       /\ response.body.enhanced_prompt = LocalOnly(prompt).enhanced_prompt

C2_Witness ==
  /\ Returned /\ Answered /\ NotJson(outcome.text)
  /\ FindFirst(outcome.text, "{") # 0
  /\ clean_prompt(prompt) # prompt
  /\ Source = "local"

\* C3: when the service answered with an object that has all four keys, each
\* field of the result is the service's value if that is truthy and the local
\* heuristic's value otherwise, each field on its own.
C3_MergeFieldByField ==
  (Ended /\ Answered /\ CarriesFullObject(outcome.text))
    => /\ Returned
       /\ \A k \in KeySet :
            response.body.enhanced_prompt[k] =
              IF Truthy(json_loads(BracePart(outcome.text)).val.m[k])
              THEN json_loads(BracePart(outcome.text)).val.m[k]
              ELSE analyze_prompt(prompt)[k]

\* output_format "" and the other three populated
C3_Witness ==
  /\ Returned /\ Answered /\ CarriesFullObject(outcome.text)
  /\ llm_result.enhanced_prompt.m["output_format"] = PyStr("")
  /\ \A k \in KeySet \ {"output_format"} :
       /\ response.body.enhanced_prompt[k] = PyStr("custom")
  /\ response.body.enhanced_prompt["output_format"] = analyze_prompt(prompt)["output_format"]
  /\ response.body.enhanced_prompt["output_format"].v \in output_formats

\* C4: on every path the result's original_prompt is the raw input.
C4_OriginalPromptIsRawInput ==
  Returned => response.body.original_prompt = PyText(prompt)

\* a filler word and irregular whitespace in the input, on the merged path
C4_Witness ==
  /\ Returned
  /\ Source = "gemini+local"
  /\ MatchCI(prompt, 1, filler_words[1])
  /\ CollapseSpaces(strip(prompt)) # prompt
  /\ clean_prompt(prompt) # CollapseSpaces(strip(prompt))
  /\ response.body.original_prompt.cs = prompt

\* C5: the result's source is "gemini+local" exactly when the service was
\* configured and answered with an object that has all four keys, "local"
\* exactly when not, and never "gemini".
C5_SourceRecordsPath ==
  Returned =>
    /\ Source = "gemini+local"
         <=> (configured /\ Answered /\ CarriesFullObject(outcome.text))
    /\ Source = "local"
         <=> ~(configured /\ Answered /\ CarriesFullObject(outcome.text))
    /\ Source # "gemini"

\* all four values empty strings, and still the merged path
C5_Witness ==
  /\ Returned
  /\ Source = "gemini+local"
  /\ \A k \in KeySet : llm_result.enhanced_prompt.m[k] = PyStr("")

\* the six contexts and the eight format labels
ContextLabels == {ContextOrder[i] : i \in 1..Len(ContextOrder)} \cup {"general"}
IsContextLabel(x) == x.kind = "str" /\ x.v \in ContextLabels
IsFormatLabel(x)  == x.kind = "str" /\ x.v \in output_formats

\* C7 as claimed: in every result, context is one of the six contexts and
\* output_format one of the eight labels.
C7_FieldsInVocabulary ==
  Returned => /\ IsContextLabel(response.body.enhanced_prompt.context)
              /\ IsFormatLabel(response.body.enhanced_prompt.output_format)

\* C7 as amended: on the local path context is one of the six contexts and
\* output_format one of the eight labels; on the merged path each of the two
\* is such a label or the truthy value the service gave for it.
C7_LocalFieldsInVocabulary ==
  Returned =>
    /\ Source = "local" =>
         /\ IsContextLabel(response.body.enhanced_prompt.context)
         /\ IsFormatLabel(response.body.enhanced_prompt.output_format)
    /\ Source = "gemini+local" =>
         /\ \/ IsContextLabel(response.body.enhanced_prompt.context)
            \/ /\ Truthy(llm_result.enhanced_prompt.m["context"])
               /\ response.body.enhanced_prompt.context
                    = llm_result.enhanced_prompt.m["context"]
         /\ \/ IsFormatLabel(response.body.enhanced_prompt.output_format)
            \/ /\ Truthy(llm_result.enhanced_prompt.m["output_format"])
               /\ response.body.enhanced_prompt.output_format
                    = llm_result.enhanced_prompt.m["output_format"]

\* a merged result whose context the service left empty and whose
\* output_format is the service's own word
C7_Witness ==
  /\ Returned
  /\ Source = "gemini+local"
  /\ ~Truthy(llm_result.enhanced_prompt.m["context"])
  /\ IsContextLabel(response.body.enhanced_prompt.context)
  /\ response.body.enhanced_prompt.output_format = PyStr("custom")

\* C9: a response text without a "{" and a "}" is a failure of call_gemini,
\* whatever else it holds, and the request returns the local result.
C9_NoBracePairIsFailure ==
  (pc \in {"called", "returned", "crashed"} /\ Answered
     /\ (FindFirst(outcome.text, "{") = 0 \/ FindLast(outcome.text, "}") = 0))
    => /\ ~llm_result.some
       /\ pc # "crashed"
       /\ Returned => Source = "local"

(***************************************************************************)
(* Properties of analyze_prompt (specification SpecAnalyze)                *)
(***************************************************************************)

Analyzed == pc = "analyzed"

AllFieldsNonEmpty ==
  /\ analysis.context.v # ""
  /\ analysis.problem.cs # <<>>
  /\ analysis.expected_solution.v # ""
  /\ analysis.output_format.v # ""

\* C6 as claimed: for every non-empty prompt all four fields are non-empty.
C6_NonEmptyPromptNonEmptyFields ==
  (Analyzed /\ prompt # <<>>) => AllFieldsNonEmpty

\* C6 as amended: for every prompt that is non-empty after trimming all four
\* fields are non-empty.
C6_TrimmedNonEmptyFields ==
  (Analyzed /\ strip(prompt) # <<>>) => AllFieldsNonEmpty

\* blanks, a filler word that goes and one that stays as the problem
C6_Witness ==
  /\ Analyzed
  /\ prompt = Chunks[2] \o Chunks[1] \o Chunks[10]
  /\ analysis.problem.cs = Chunks[10]
  /\ AllFieldsNonEmpty

WhatIsMachineLearning ==
  <<"W","h","a","t"," ","i","s"," ","m","a","c","h","i","n","e"," ",
    "l","e","a","r","n","i","n","g","?">>

MachineLearning ==
  <<"m","a","c","h","i","n","e"," ","l","e","a","r","n","i","n","g">>

\* C8 as claimed: "What is machine learning?" has context general, problem
\* "machine learning" and output_format "detailed explanation".
C8_MachineLearningGeneral ==
  (Analyzed /\ prompt = WhatIsMachineLearning)
    => /\ analysis.context = PyStr("general")
       /\ analysis.problem = PyText(MachineLearning)
       /\ analysis.output_format = PyStr("detailed explanation")

\* C8 as amended: "What is machine learning?" has context educational (the
\* keyword learn occurs in learning), problem "machine learning" and the
\* default format of educational, "step-by-step guide".
C8_MachineLearningEducational ==
  (Analyzed /\ prompt = WhatIsMachineLearning)
    => /\ analysis.context = PyStr("educational")
       /\ analysis.problem = PyText(MachineLearning)
       /\ analysis.expected_solution =
            PyStr("Give clear, step-by-step explanation suitable for learning")
       /\ analysis.output_format = PyStr("step-by-step guide")

C8_Witness == Analyzed /\ prompt = WhatIsMachineLearning

\* the prompt trimmed and its whitespace collapsed, before any filler goes
Collapsed == CollapseSpaces(strip(prompt))

Cleaned == pc \notin {"clean"}

\* the filler word w and a blank, ignoring case, at the start of s
StartsWithFiller(s, w) ==
  MatchCI(s, 1, filler_words[w]) /\ Len(s) > Len(filler_words[w])
    /\ s[Len(filler_words[w]) + 1] = " "

\* C10 as claimed: at most one filler phrase is removed, the one at the very
\* start of the trimmed input.
C10_AtMostOneFillerRemoved ==
  Cleaned =>
    \/ cleaned_prompt = Collapsed
    \/ \E w \in 1..Len(filler_words) :
         /\ StartsWithFiller(Collapsed, w)
         /\ cleaned_prompt = DropFirst(Collapsed, Len(filler_words[w]) + 1)

\* the length of the fillers of the set S that come before the w-th in the
\* table, a blank after each
RECURSIVE RemovedBefore(_, _)
RemovedBefore(S, w) ==
  IF w <= 1 THEN 0
  ELSE RemovedBefore(S, w - 1)
       + (IF (w - 1) \in S THEN Len(filler_words[w - 1]) + 1 ELSE 0)

\* C10 as amended: the five phrases are tried once each, in the order of the
\* table, against the start of what the removals before have left; the
\* normalized text is the collapsed text without the phrases that matched at
\* their turn, so that up to five phrases go, and one that is not at the start
\* at its turn stays.
C10_EachFillerTriedInTurn ==
  Cleaned =>
    \E S \in SUBSET (1..Len(filler_words)) :
      /\ cleaned_prompt = DropFirst(Collapsed, RemovedBefore(S, Len(filler_words) + 1))
      /\ \A w \in 1..Len(filler_words) :
           w \in S <=> StartsWithFiller(DropFirst(Collapsed, RemovedBefore(S, w)), w)

\* "please Can you code": two phrases go
C10_Witness ==
  /\ Cleaned
  /\ prompt = Chunks[1] \o Chunks[5] \o Chunks[4]
  /\ cleaned_prompt = Chunks[4]

(***************************************************************************)
(* Properties of the three methods (specification SpecSteps)               *)
(***************************************************************************)

\* the number of distinct keywords of context c that occur in the text,
\* lower-cased
Hits(c) ==
  Cardinality({kw \in {context_keywords[c][k] : k \in 1..Len(context_keywords[c])} :
                 Contains(lower(prompt), kw)})

\* n is the highest number of hits of the five contexts
IsMaxHits(n) ==
  /\ \E i \in 1..Len(ContextOrder) : Hits(ContextOrder[i]) = n
  /\ \A i \in 1..Len(ContextOrder) : Hits(ContextOrder[i]) <= n

\* C11: every context's score is in 0..5; detect_context returns "general"
\* exactly when the highest score is 0, and otherwise the context with the
\* highest score, the earliest of the table's order when several share it.
C11_HighestScoreEarliestWins ==
  pc = "detected" =>
    /\ \A i \in 1..Len(ContextOrder) : Hits(ContextOrder[i]) \in 0..5
    /\ context = "general" <=> IsMaxHits(0)
    /\ ~IsMaxHits(0) =>
         \E i \in 1..Len(ContextOrder) :
           /\ context = ContextOrder[i]
           /\ IsMaxHits(Hits(ContextOrder[i]))
           /\ \A j \in 1..(i - 1) : Hits(ContextOrder[j]) < Hits(ContextOrder[i])

\* creative and business share the highest score, and creative is returned
C11_Witness ==
  /\ pc = "detected"
  /\ Hits("creative") = 1
  /\ Hits("business") = 1
  /\ IsMaxHits(1)
  /\ context = "creative"

\* the k-th format keyword occurs in the text, lower-cased
HasFormatKeyword(k) == Contains(lower(prompt), format_keywords[k].kw)

\* the default format of a context, as claimed
ClaimedDefault(c) ==
  CASE c = "technical"   -> "detailed explanation"
    [] c = "educational" -> "step-by-step guide"
    [] c = "creative"    -> "essay format"
    [] c = "analytical"  -> "comparative analysis"
    [] c = "business"    -> "summary"
    [] OTHER             -> "detailed explanation"

\* C12: suggest_output_format returns the label of the first keyword, in the
\* order bullet, list, step, table, compare, summary, code, essay, that occurs
\* in the lower-cased text, whatever the context; only when none occurs does
\* it return the default of the context, "detailed explanation" for general
\* and for a context it does not know.
C12_FirstKeywordElseContextDefault ==
  pc = "formatted" =>
    IF \E k \in 1..Len(format_keywords) : HasFormatKeyword(k)
    THEN \E k \in 1..Len(format_keywords) :
           /\ HasFormatKeyword(k)
           /\ \A j \in 1..(k - 1) : ~HasFormatKeyword(j)
           /\ output_format = format_keywords[k].label
    ELSE output_format = ClaimedDefault(context)

\* "code list" with the context creative: list goes before code, which
\* comes first in the text, and before the default of creative
C12_Witness ==
  /\ pc = "formatted"
  /\ prompt = Join(<<1, 9>>)
  /\ HasFormatKeyword(2) /\ HasFormatKeyword(7)
  /\ context = "creative"
  /\ output_format = "bullet points"

\* pattern k matches the text from position i on with its group starting at
\* c: one of its heads stands at i, ignoring case, and ends right before c,
\* and there is text left for the group
MatchesAt(k, i, c) ==
  /\ c <= Len(prompt)
  /\ \E h \in 1..Len(question_patterns[k]) :
       /\ c = i + Len(question_patterns[k][h])
       /\ MatchCI(prompt, i, question_patterns[k][h])

MatchesSomewhere(k) ==
  \E i \in 1..Len(prompt) : \E c \in (i + 1)..Len(prompt) : MatchesAt(k, i, c)

\* the group that starts at c ends at e: before a "?" or at the end of the
\* text, and nowhere before e is it followed by a "?"
GroupEndsAt(c, e) ==
  /\ e \in c..Len(prompt)
  /\ (e = Len(prompt) \/ prompt[e + 1] = "?")
  /\ \A d \in c..(e - 1) : prompt[d + 1] # "?"

\* C13: extract_problem returns the trimmed group of the first pattern, in
\* the order of the list, that matches anywhere in the text, wherever the
\* matches of later patterns start; the group is that of the pattern's
\* leftmost match and ends before a "?" or at the end of the text; when no
\* pattern matches the result is the entire text.
C13_FirstListedPatternDecides ==
  pc = "extracted" =>
    IF \E k \in 1..Len(question_patterns) : MatchesSomewhere(k)
    THEN \E k \in 1..Len(question_patterns) :
           /\ MatchesSomewhere(k)
           /\ \A j \in 1..(k - 1) : ~MatchesSomewhere(j)
           /\ \E i \in 1..Len(prompt) : \E c \in (i + 1)..Len(prompt) :
                /\ MatchesAt(k, i, c)
                /\ \A i2 \in 1..(i - 1) : \A c2 \in (i2 + 1)..Len(prompt) :
                     ~MatchesAt(k, i2, c2)
                /\ \E e \in c..Len(prompt) :
                     /\ GroupEndsAt(c, e)
                     /\ problem = strip(SubSeq(prompt, c, e))
    ELSE problem = prompt

\* "explain What is it": the what-pattern decides though the explain-pattern
\* matches further left
C13_Witness ==
  /\ pc = "extracted"
  /\ prompt = Join(<<3, 13>>)
  /\ MatchesAt(4, 1, 9)
  /\ MatchesAt(1, 9, 17)
  /\ problem = <<"i", "t">>

(***************************************************************************)
(* The order of the steps of POST /enhance (specification Spec)            *)
(***************************************************************************)

\* C14: within one request the service is called at most once; a call is the
\* step from the request accepted to call_gemini returned; after a failed
\* attempt the next step is the local fallback, without another call; and the
\* analyzer runs only once call_gemini has returned, with no call after it.
C14_OneCallThenAnalyzer ==
  /\ [](calls <= 1)
  /\ [][ /\ calls' # calls => (pc = "gemini" /\ calls = 0 /\ pc' = "called")
         /\ (pc = "called" /\ ~llm_result.some)
              => /\ pc' = "returned"
                 /\ calls' = calls
                 /\ response'.body.metadata.source = "local"
         /\ analysis' # analysis => (pc = "called" /\ calls' = calls) ]_vars

\* the service raised at its one call and the analyzer's result went out
C14_Witness ==
  /\ Returned
  /\ calls = 1
  /\ outcome.kind = "raise"
  /\ Source = "local"
  /\ analysis # NoAnalysis
  /\ analysis = response.body.enhanced_prompt
====
